---- MODULE Spec2Model ----
(***************************************************************************)
(* Scan orchestration engine of sicon-web: target validation, module plan, *)
(* the run_scan_task job and the persisted Scan record.                    *)
(*                                                                         *)
(* Strings are sequences of one-character strings; the tokens "NUL" and    *)
(* "BACKTICK" stand for the byte \x00 and the character U+0060.  Messages   *)
(* are sequences of string pieces.                                         *)
(***************************************************************************)
EXTENDS Integers, Sequences, FiniteSets, TLC

\* ------------------------------------------------------------------ bounds
\* longest free-form target body that is enumerated
MaxLen == 3
\* longest host name over the host alphabet that is enumerated
MaxHostLen == 4
\* longest octet of an enumerated dotted quad
MaxOctetLen == 2
\* adapter calls after which a job is not invoked again
MaxCalls == 3
\* most lines an enumerated tool output holds
MaxLines == 2
\* most signatures an enumerated HTTP response matches
MaxHits == 3

\* ------------------------------------------------------- character classes
Lowercase == {"a", "b", "c", "d", "e", "f", "g", "h", "i", "j", "k", "l", "m",
              "n", "o", "p", "q", "r", "s", "t", "u", "v", "w", "x", "y", "z"}
Uppercase == {"A", "B", "C", "D", "E", "F", "G", "H", "I", "J", "K", "L", "M",
              "N", "O", "P", "Q", "R", "S", "T", "U", "V", "W", "X", "Y", "Z"}
Digits == {"0", "1", "2", "3", "4", "5", "6", "7", "8", "9"}
Alnum == Lowercase \cup Uppercase \cup Digits
\* \d of a str pattern matches every Unicode decimal digit; U+0661
\* (ARABIC-INDIC DIGIT ONE) stands for those outside ASCII
ArabicIndicOne == "U+0661"
DecimalDigits == Digits \cup {ArabicIndicOne}
\* what str.strip() removes among the characters used here
Whitespace == {" ", "\t", "\n", "\r"}

\* re.IGNORECASE on the letters the patterns use
Lower(c) ==
    CASE c = "C" -> "c" [] c = "E" -> "e" [] c = "T" -> "t" [] c = "V" -> "v"
      [] c = "A" -> "a" [] c = "R" -> "r" [] c = "M" -> "m" [] c = "P" -> "p"
      [] c = "O" -> "o" [] c = "F" -> "f" [] c = "I" -> "i" [] c = "L" -> "l"
      [] OTHER -> c

\* ------------------------------------------------------------ string helpers
StartsWith(s, p) ==
    /\ Len(p) <= Len(s)
    /\ \A i \in 1..Len(p) : s[i] = p[i]

\* p occurs in s
Contains(s, p) ==
    \E k \in 0..(Len(s) - Len(p)) : \A i \in 1..Len(p) : s[k + i] = p[i]

\* re.search of a literal lower-case pattern with re.IGNORECASE
Search(p, s) == \E ls \in {[k \in 1..Len(s) |-> Lower(s[k])]} : Contains(ls, p)

\* the longest prefix of s holding no character of stop
RECURSIVE TakeUntil(_, _)
TakeUntil(s, stop) ==
    IF s = <<>> \/ Head(s) \in stop THEN <<>>
    ELSE <<Head(s)>> \o TakeUntil(Tail(s), stop)

RECURSIVE LStrip(_)
LStrip(s) == IF s # <<>> /\ Head(s) \in Whitespace THEN LStrip(Tail(s)) ELSE s

RECURSIVE RStrip(_)
RStrip(s) ==
    IF s # <<>> /\ s[Len(s)] \in Whitespace THEN RStrip(SubSeq(s, 1, Len(s) - 1))
    ELSE s

\* str.strip()
Strip(s) == RStrip(LStrip(s))

\* ------------------------------------------------------------ validate_target
HttpScheme == <<"h", "t", "t", "p", ":", "/", "/">>
HttpsScheme == <<"h", "t", "t", "p", "s", ":", "/", "/">>
FileScheme == <<"f", "i", "l", "e", ":", "/", "/">>

\* urlparse(target).netloc of a target that starts with http:// or https://
NetLoc(t) ==
    LET rest == IF StartsWith(t, HttpsScheme)
                THEN SubSeq(t, Len(HttpsScheme) + 1, Len(t))
                ELSE SubSeq(t, Len(HttpScheme) + 1, Len(t))
    IN TakeUntil(rest, {"/", "?", "#"})

\* the port is left on the host
DropPortKeepsPort(d) == d

\* domain.split(':')[0]
DropPort(d) == TakeUntil(d, {":"})

dangerous_patterns ==
    << <<".", ".", "/">>, <<".", ".">>, <<";">>, <<"|">>, <<"&">>, <<"$">>,
       <<"BACKTICK">>, <<"\n">>, <<"\r">>, <<"<">>, <<">">>, <<"NUL">>,
       <<"/", "e", "t", "c", "/">>, <<"/", "v", "a", "r", "/">>,
       <<"/", "t", "m", "p", "/">>, <<"/", "p", "r", "o", "c", "/">>,
       <<"c", ":", "\\">>, FileScheme >>

IsDangerous(d) ==
    \E k \in 1..Len(dangerous_patterns) : Search(dangerous_patterns[k], d)

\* ^[a-zA-Z0-9][a-zA-Z0-9\-\.]*[a-zA-Z0-9]$|^[a-zA-Z0-9]$ without the $ rule
DomainCore(d) ==
    /\ Len(d) >= 1
    /\ d[1] \in Alnum
    /\ d[Len(d)] \in Alnum
    /\ \A i \in 1..Len(d) : d[i] \in Alnum \cup {"-", "."}

\* the maximal runs of digits of d are its octets: ^(\d{1,3}\.){3}\d{1,3}$
RECURSIVE IpGroups(_, _, _)
IpGroups(d, run, groups) ==
    IF d = <<>> THEN run \in 1..3 /\ groups = 3
    ELSE IF Head(d) \in DecimalDigits THEN IpGroups(Tail(d), run + 1, groups)
    ELSE IF Head(d) = "." THEN run \in 1..3 /\ IpGroups(Tail(d), 0, groups + 1)
    ELSE FALSE

IpCore(d) == IpGroups(d, 0, 0)

\* $ matches at the end and before a final newline: the strings that the
\* part of a pattern before $ may span
AtDollar(d) ==
    {d} \cup (IF Len(d) >= 1 /\ d[Len(d)] = "\n"
              THEN {SubSeq(d, 1, Len(d) - 1)} ELSE {})

domain_pattern(d) == \E e \in AtDollar(d) : DomainCore(e)
ip_pattern(d) == \E e \in AtDollar(d) : IpCore(e)

Ok(host) == [ok |-> TRUE, host |-> host, error |-> <<>>]
ValueError(msg) == [ok |-> FALSE, host |-> <<>>, error |-> msg]

\* the host candidate that the pattern and format checks see
Candidate(target) ==
    LET t == Strip(target)
        domain == IF StartsWith(t, HttpScheme) \/ StartsWith(t, HttpsScheme)
                  THEN NetLoc(t) ELSE t
    IN IF \E i \in 1..Len(domain) : domain[i] = ":" THEN DropPort(domain)
       ELSE domain

\* the pattern and format checks on the host candidate
CheckDomain(domain) ==
    IF IsDangerous(domain)
    THEN ValueError(<<"Invalid target: contains dangerous pattern">>)
    ELSE IF ~domain_pattern(domain) /\ ~ip_pattern(domain)
    THEN ValueError(<<"Invalid target format: ">> \o domain)
    ELSE Ok(domain)

validate_target(target) ==
    IF target = <<>> THEN ValueError(<<"Target cannot be empty">>)
    ELSE CHOOSE r \in {CheckDomain(domain) : domain \in {Candidate(target)}} : TRUE

\* -------------------------------------------------------------- module plan
Null == "<null>"
NoRow == [absent |-> TRUE]
NoRequest == [none |-> TRUE]
EmptyMap == <<>>

\* the fixed module order of run_scan_task
Modules == <<"waf", "port", "subdo", "cms", "tech", "dir", "wp">>
ModuleSet == {Modules[k] : k \in 1..Len(Modules)}

Put(map, key, value) ==
    [x \in DOMAIN map \cup {key} |-> IF x = key THEN value ELSE map[x]]

\* dict.get(key, default)
Get(map, key, default) == IF key \in DOMAIN map THEN map[key] ELSE default

\* field defaults of the request schema
SchemaDefault(m) == m # "wp"

\* ScanOptions(**req).model_dump(), module flags
ScanOptions(req) == [m \in ModuleSet |-> Get(req, m, SchemaDefault(m))]

\* wp enabled by default like the other modules
RunDefaultAllOn(m) == TRUE

\* the defaults of options.get(...) in run_scan_task
RunDefault(m) == m # "wp"

modules_to_run(opts) == SelectSeq(Modules, LAMBDA m : Get(opts, m, RunDefault(m)))

total_modules(plan) == IF Len(plan) > 0 THEN Len(plan) ELSE 1

\* int((i / total_modules) * 100), i counted from 0
Progress(i, total) == (i * 100) \div total

\* "full" if all([waf, port, subdo]) else "partial"
ScanType(opts) == IF opts["waf"] /\ opts["port"] /\ opts["subdo"] THEN "full" ELSE "partial"

\* ------------------------------------------------------------------ adapters
\* what the external call of an adapter does: it returns ("completed": exit
\* status 0, or an HTTP response), exceeds its time bound ("timeout"), fails
\* with another exception ("error"), or an exception leaves the adapter
\* ("raise")
AdapterOutcomes == {"completed", "timeout", "error", "raise"}

\* what one external tool does: as above, or it returns with a non-zero exit
\* status ("nonzero"), or its binary is missing ("missing")
ProcessOutcomes == {"completed", "nonzero", "timeout", "missing", "error"}

\* str(e)
AdapterMessage == <<"adapter failure">>
PersistenceMessage == <<"persistence failure">>
TimeoutMessage == <<"Scan timed out">>
NotInstalledMessage == <<"not installed">>
ConnectionMessage == <<"Connection failed: ">> \o AdapterMessage
NoToolsMessage == <<"No subdomain tools available. Install: subfinder, assetfinder">>

\* one adapter invocation as the environment decides it: the outcome of its
\* external call with the lines it printed, and for the subdomain adapter
\* the same for its second tool
Tool(kind, out) == [kind |-> kind, out |-> out]
Event(kind, out, second) == [kind |-> kind, out |-> out, second |-> second]
\* an invocation whose tools all behave alike and print nothing
Call(kind) == Event(kind, <<>>, Tool(kind, <<>>))

\* the except clauses of a process-wrapping adapter; a returned process
\* leaves the status completed whatever its exit status
ProcessStatus(ev) ==
    CASE ev.kind = "timeout" -> [status |-> "timeout", error |-> TimeoutMessage]
      [] ev.kind = "missing" -> [status |-> "error", error |-> NotInstalledMessage]
      [] ev.kind = "error" -> [status |-> "error", error |-> AdapterMessage]
      [] OTHER -> [status |-> "completed"]

\* the except clauses of cms and wp: requests.Timeout is a RequestException
RequestStatus(ev) ==
    CASE ev.kind = "timeout" -> [status |-> "error", error |-> ConnectionMessage]
      [] ev.kind = "error" -> [status |-> "error", error |-> AdapterMessage]
      [] OTHER -> [status |-> "completed"]

\* record r extended or overwritten by the fields of s
Merge(r, s) == [f \in DOMAIN r \cup DOMAIN s |-> IF f \in DOMAIN s THEN s[f] ELSE r[f]]

\* what an adapter event without payload stands for: a response that matches
\* nothing
Payload(ev, empty) == IF DOMAIN ev.out = {} THEN empty ELSE ev.out

\* ------------------------------------------------------------ waf adapter
\* What wafw00f printed on stdout and stderr: a line naming the firewall the
\* site "is behind", a line saying "No WAF" or "seems to be unprotected",
\* or neither of them; the firewall named is Cloudflare.
run_waf_scan(ev) ==
    LET result == [detected |-> FALSE, waf_name |-> Null, waf_vendor |-> Null,
                   status |-> "completed"]
        out == Payload(ev, [verdict |-> "unrecognised"])
    IN IF ev.kind \notin {"completed", "nonzero"} THEN Merge(result, ProcessStatus(ev))
       ELSE IF out.verdict = "behind"
       THEN Merge(result, [detected |-> TRUE, waf_name |-> "Cloudflare"])
       ELSE IF out.verdict = "unprotected" THEN Merge(result, [waf_name |-> "None"])
       ELSE result

\* --------------------------------------------------------------- port adapter
\* A line of nmap output is its text up to the first whitespace (head, empty
\* when the line starts with whitespace) and the whitespace-separated fields
\* after it.
WordChars == Alnum \cup {"_"}

DigitValue(c) == CHOOSE n \in 0..9 : <<"0", "1", "2", "3", "4", "5", "6", "7", "8", "9">>[n + 1] = c

\* int(text) of a digit string
RECURSIVE ToInt(_)
ToInt(ds) ==
    IF ds = <<>> THEN 0
    ELSE ToInt(SubSeq(ds, 1, Len(ds) - 1)) * 10 + DigitValue(ds[Len(ds)])

\* (\d+)/(\w+) followed by whitespace
PortHead(head) ==
    \E k \in 2..(Len(head) - 1) :
        /\ head[k] = "/"
        /\ \A j \in 1..(k - 1) : head[j] \in Digits
        /\ \A j \in (k + 1)..Len(head) : head[j] \in WordChars

\* re.match(r'(\d+)/(\w+)\s+open\s+(\S+)\s*(.*)', line)
PortLineMatch(line) ==
    /\ PortHead(line.head)
    /\ Len(line.fields) >= 2
    /\ line.fields[1] = "open"

\* telnet is rated like ssh
RiskTelnetMedium(port_num) ==
    IF port_num \in {21, 3389, 5900} THEN "high"
    ELSE IF port_num \in {22, 23, 25, 110, 143, 3306, 5432} THEN "medium"
    ELSE "low"

\* risk level of a port number
Risk(port_num) ==
    IF port_num \in {21, 23, 3389, 5900} THEN "high"
    ELSE IF port_num \in {22, 25, 110, 143, 3306, 5432} THEN "medium"
    ELSE "low"

PortEntry(line) ==
    LET slash == CHOOSE k \in 1..Len(line.head) : line.head[k] = "/"
        port_num == ToInt(SubSeq(line.head, 1, slash - 1))
    IN [port |-> port_num,
        protocol |-> SubSeq(line.head, slash + 1, Len(line.head)),
        state |-> "open",
        service |-> line.fields[2],
        version |-> SubSeq(line.fields, 3, Len(line.fields)),
        risk |-> Risk(port_num)]

\* the loop over output.split('\n')
RECURSIVE OpenPorts(_)
OpenPorts(out) ==
    IF out = <<>> THEN <<>>
    ELSE (IF PortLineMatch(Head(out)) THEN <<PortEntry(Head(out))>> ELSE <<>>)
             \o OpenPorts(Tail(out))

run_port_scan(ev) ==
    IF ev.kind \in {"completed", "nonzero"}
    THEN [status |-> "completed", open_ports |-> OpenPorts(ev.out),
          count |-> Len(OpenPorts(ev.out))]
    ELSE Merge([open_ports |-> <<>>, count |-> 0], ProcessStatus(ev))

\* ---------------------------------------------------------- subdomain adapter
\* the characters of host names in code point order
Collation ==
    <<"-", ".", "0", "1", "2", "3", "4", "5", "6", "7", "8", "9",
      "a", "b", "c", "d", "e", "f", "g", "h", "i", "j", "k", "l", "m",
      "n", "o", "p", "q", "r", "s", "t", "u", "v", "w", "x", "y", "z">>
UpperLetters ==
    <<"A", "B", "C", "D", "E", "F", "G", "H", "I", "J", "K", "L", "M",
      "N", "O", "P", "Q", "R", "S", "T", "U", "V", "W", "X", "Y", "Z">>

\* str.lower()
LowerChar(c) ==
    IF c \in Uppercase
    THEN Collation[12 + CHOOSE k \in 1..26 : UpperLetters[k] = c]
    ELSE c
LowerStr(s) == [k \in 1..Len(s) |-> LowerChar(s[k])]

Code(c) == CHOOSE k \in 1..Len(Collation) : Collation[k] = c

\* a < b on strings
RECURSIVE StrLess(_, _)
StrLess(a, b) ==
    IF b = <<>> THEN FALSE
    ELSE IF a = <<>> THEN TRUE
    ELSE IF Head(a) = Head(b) THEN StrLess(Tail(a), Tail(b))
    ELSE Code(Head(a)) < Code(Head(b))

\* sorted(S)
Sorted(S) ==
    LET rank == [x \in S |-> Cardinality({y \in S : StrLess(y, x)})]
    IN [k \in 1..Cardinality(S) |-> CHOOSE x \in S : rank[x] = k - 1]

\* the names are kept as the tool printed them
SourceNamesKeepCase(tool) ==
    IF tool.kind \in {"completed", "nonzero"}
    THEN {Strip(tool.out[k]) :
             k \in {j \in 1..Len(tool.out) :
                       Strip(tool.out[j]) # <<>> /\ "." \in {tool.out[j][n] : n \in 1..Len(tool.out[j])}}}
    ELSE {}

\* the names one tool contributes: the stripped, lower-cased lines that hold
\* a dot, when subprocess.run returned
SourceNames(tool) ==
    IF tool.kind \in {"completed", "nonzero"}
    THEN {LowerStr(Strip(tool.out[k])) :
             k \in {j \in 1..Len(tool.out) :
                       Strip(tool.out[j]) # <<>> /\ "." \in {tool.out[j][n] : n \in 1..Len(tool.out[j])}}}
    ELSE {}

\* result["sources"]: a tool counts when its return code is 0
Sources(ev) ==
    (IF ev.kind = "completed" THEN <<"subfinder">> ELSE <<>>)
        \o (IF ev.second.kind = "completed" THEN <<"assetfinder">> ELSE <<>>)

cpanel_prefixes ==
    {<<"c", "p", "a", "n", "e", "l", ".">>,
     <<"w", "e", "b", "d", "i", "s", "k", ".">>,
     <<"w", "e", "b", "m", "a", "i", "l", ".">>,
     <<"c", "p", "c", "o", "n", "t", "a", "c", "t", "s", ".">>,
     <<"w", "h", "m", ".">>,
     <<"a", "u", "t", "o", "c", "o", "n", "f", "i", "g", ".">>,
     <<"m", "a", "i", "l", ".">>,
     <<"c", "p", "c", "a", "l", "e", "n", "d", "a", "r", "s", ".">>,
     <<"a", "u", "t", "o", "d", "i", "s", "c", "o", "v", "e", "r", ".">>}

\* parsed_subdomains[:100]
DisplayLimit == 100

SubdomainEntry(sub) ==
    [subdomain |-> sub,
     type |-> IF \E p \in cpanel_prefixes : StartsWith(sub, p) THEN "cpanel" ELSE "regular",
     url |-> HttpsScheme \o sub]

run_subdomain_scan(ev) ==
    LET all_subdomains == SourceNames(Tool(ev.kind, ev.out)) \cup SourceNames(ev.second)
        ordered == Sorted(all_subdomains)
        shown == SubSeq(ordered, 1, IF Len(ordered) < DisplayLimit THEN Len(ordered) ELSE DisplayLimit)
        result == [status |-> "completed",
                   subdomains |-> [k \in 1..Len(shown) |-> SubdomainEntry(shown[k])],
                   count |-> Cardinality(all_subdomains),
                   total_found |-> Cardinality(all_subdomains),
                   sources |-> Sources(ev)]
    IN IF Sources(ev) = <<>>
       THEN Merge(result, [status |-> "error", error |-> NoToolsMessage])
       ELSE result

\* ------------------------------------------------------------ other adapters
\* ---------------------------------------------------------------- cms adapter
\* the signature table in its iteration order: how many URL patterns a
\* candidate has, whether it has a generator meta pattern, how many cookies
cms_signatures ==
    <<[name |-> "WordPress", patterns |-> 3, meta |-> TRUE, cookies |-> 0],
      [name |-> "Joomla", patterns |-> 2, meta |-> TRUE, cookies |-> 0],
      [name |-> "Drupal", patterns |-> 3, meta |-> TRUE, cookies |-> 0],
      [name |-> "Shopify", patterns |-> 2, meta |-> FALSE, cookies |-> 0],
      [name |-> "Laravel", patterns |-> 0, meta |-> FALSE, cookies |-> 2],
      [name |-> "Magento", patterns |-> 3, meta |-> FALSE, cookies |-> 0]>>

\* one signature of the table; a response is the set of signatures it matches
Signature(cms, part, n) == [cms |-> cms, part |-> part, n |-> n]


\* the signatures of one kind of a candidate that the response matches, in
\* table order
RECURSIVE Matched(_, _, _, _)
Matched(hits, cms, part, n) ==
    IF n = 0 THEN <<>>
    ELSE Matched(hits, cms, part, n - 1)
             \o (IF Signature(cms, part, n) \in hits THEN <<Signature(cms, part, n)>> ELSE <<>>)

\* indicators of a candidate: patterns, then the generator meta tag, then
\* cookies
Indicators(sig, hits) ==
    Matched(hits, sig.name, "pattern", sig.patterns)
        \o Matched(hits, sig.name, "meta", IF sig.meta THEN 1 ELSE 0)
        \o Matched(hits, sig.name, "cookie", sig.cookies)

\* score: +1 per pattern, +2 for the meta tag, +2 per cookie
Score(sig, hits) ==
    Len(Matched(hits, sig.name, "pattern", sig.patterns))
        + 2 * Len(Matched(hits, sig.name, "meta", IF sig.meta THEN 1 ELSE 0))
        + 2 * Len(Matched(hits, sig.name, "cookie", sig.cookies))

\* two points are enough for high
ConfidenceHighFromTwo(score) == IF score >= 2 THEN "high" ELSE "low"

Confidence(score) ==
    IF score >= 3 THEN "high" ELSE IF score >= 2 THEN "medium" ELSE "low"

\* the loop over the table, left at the first candidate that scores
RECURSIVE CmsLoop(_, _, _)
CmsLoop(k, hits, result) ==
    IF k > Len(cms_signatures) THEN result
    ELSE IF Score(cms_signatures[k], hits) > 0
    THEN Merge(result,
               [detected |-> TRUE,
                cms_name |-> cms_signatures[k].name,
                cms_version |-> IF Signature(cms_signatures[k].name, "meta", 1) \in hits
                                THEN "group1" ELSE Null,
                indicators |-> Indicators(cms_signatures[k], hits),
                confidence |-> Confidence(Score(cms_signatures[k], hits))])
    ELSE CmsLoop(k + 1, hits, result)

run_cms_detection(ev) ==
    LET result == [detected |-> FALSE, cms_name |-> Null, cms_version |-> Null,
                   confidence |-> "low", indicators |-> <<>>, status |-> "completed"]
    IN IF ev.kind \in {"timeout", "error"} THEN Merge(result, RequestStatus(ev))
       ELSE CmsLoop(1, Payload(ev, [hits |-> {}]).hits, result)

\* ----------------------------------------------------------- tech adapter
\* A response has a Server header, an X-Powered-By header (each a string,
\* empty when absent) and the set of the rows of tech_patterns whose pattern
\* its body matches. Names are strings of characters.
Nginx == <<"n", "g", "i", "n", "x">>
Apache == <<"A", "p", "a", "c", "h", "e">>
Cloudflare == <<"C", "l", "o", "u", "d", "f", "l", "a", "r", "e">>

Categories ==
    <<"web_server", "programming", "javascript", "css_framework", "analytics",
      "cdn", "other">>

tech_patterns ==
    <<[name |-> <<"j", "Q", "u", "e", "r", "y">>, category |-> "javascript"],
      [name |-> <<"B", "o", "o", "t", "s", "t", "r", "a", "p">>, category |-> "css_framework"],
      [name |-> <<"R", "e", "a", "c", "t">>, category |-> "javascript"],
      [name |-> <<"V", "u", "e", ".", "j", "s">>, category |-> "javascript"],
      [name |-> <<"A", "n", "g", "u", "l", "a", "r">>, category |-> "javascript"],
      [name |-> <<"T", "a", "i", "l", "w", "i", "n", "d", " ", "C", "S", "S">>, category |-> "css_framework"],
      [name |-> <<"F", "o", "n", "t", " ", "A", "w", "e", "s", "o", "m", "e">>, category |-> "css_framework"],
      [name |-> <<"G", "o", "o", "g", "l", "e", " ", "A", "n", "a", "l", "y", "t", "i", "c", "s">>, category |-> "analytics"],
      [name |-> <<"G", "o", "o", "g", "l", "e", " ", "T", "a", "g", " ", "M", "a", "n", "a", "g", "e", "r">>, category |-> "analytics"],
      [name |-> <<"C", "l", "o", "u", "d", "f", "l", "a", "r", "e">>, category |-> "cdn"]>>

Tech(name, category) == [name |-> name, category |-> category]

ServerTech(server) ==
    IF server = <<>> THEN <<>>
    ELSE IF Contains(LowerStr(server), Nginx) THEN <<Tech(Nginx, "web_server")>>
    ELSE IF Contains(LowerStr(server), LowerStr(Apache)) THEN <<Tech(Apache, "web_server")>>
    ELSE IF Contains(LowerStr(server), LowerStr(Cloudflare)) THEN <<Tech(Cloudflare, "cdn")>>
    ELSE <<>>

\* the header value itself is the name, with no look at what was found
PoweredTech(powered) ==
    IF powered = <<>> THEN <<>> ELSE <<Tech(powered, "programming")>>

\* the rows from k on: a matching row is added unless its name is there
RECURSIVE BodyTech(_, _, _)
BodyTech(k, body, found) ==
    IF k > Len(tech_patterns) THEN found
    ELSE IF k \in body /\ ~\E j \in 1..Len(found) : found[j].name = tech_patterns[k].name
    THEN BodyTech(k + 1, body, Append(found, tech_patterns[k]))
    ELSE BodyTech(k + 1, body, found)

InCategory(found, cat) ==
    LET of == SelectSeq(found, LAMBDA t : t.category = cat)
    IN [k \in 1..Len(of) |-> of[k].name]

\* {k: v for k, v in categories.items() if v}
CategoriesOf(found) ==
    [cat \in {Categories[k] : k \in {j \in 1..Len(Categories) :
                                       InCategory(found, Categories[j]) # <<>>}} |->
        InCategory(found, cat)]

\* except Exception only
run_tech_detection(ev) ==
    LET result == [technologies |-> <<>>, categories |-> <<>>, status |-> "completed"]
        out == Payload(ev, [server |-> <<>>, powered |-> <<>>, body |-> {}])
        found_tech == BodyTech(1, out.body, ServerTech(out.server) \o PoweredTech(out.powered))
    IN IF ev.kind \in {"timeout", "error"}
       THEN Merge(result, [status |-> "error", error |-> AdapterMessage])
       ELSE Merge(result, [technologies |-> found_tech,
                           categories |-> CategoriesOf(found_tech),
                           count |-> Len(found_tech)])

\* ---------------------------------------------------------- directory adapter
\* The output file of dirsearch is absent, is not the expected JSON
\* ("malformed"), or holds results; an item has a status, a path, and
\* numeric = FALSE when its status is not a number.
\* data.get("results", [])[:100]
DirectoryLimit == 100

\* 403 is rated like any other status
SeverityForbiddenIsInfo(status) ==
    IF status = 200 THEN "success"
    ELSE IF status >= 500 THEN "error"
    ELSE "info"

Severity(status) ==
    IF status = 200 THEN "success"
    ELSE IF status = 403 THEN "warning"
    ELSE IF status >= 500 THEN "error"
    ELSE "info"

Finding(item) == [path |-> item.path, status |-> item.status, severity |-> Severity(item.status)]

\* sorted(directories, key=lambda x: x["status"]): stable
RECURSIVE InsertByStatus(_, _)
InsertByStatus(sorted, f) ==
    IF sorted = <<>> THEN <<f>>
    ELSE IF sorted[Len(sorted)].status <= f.status THEN Append(sorted, f)
    ELSE Append(InsertByStatus(SubSeq(sorted, 1, Len(sorted) - 1), f), sorted[Len(sorted)])

RECURSIVE SortByStatus(_)
SortByStatus(fs) ==
    IF fs = <<>> THEN <<>>
    ELSE InsertByStatus(SortByStatus(SubSeq(fs, 1, Len(fs) - 1)), fs[Len(fs)])

\* status_count without its zero entries
ByStatus(fs) ==
    [st \in {fs[k].status : k \in 1..Len(fs)} |->
        Cardinality({k \in 1..Len(fs) : fs[k].status = st})]

run_directory_scan(ev) ==
    LET result == [directories |-> <<>>, count |-> 0, by_status |-> <<>>,
                   status |-> "completed"]
        out == Payload(ev, [file |-> "absent", items |-> <<>>])
        items == SubSeq(out.items, 1,
                        IF Len(out.items) < DirectoryLimit THEN Len(out.items)
                        ELSE DirectoryLimit)
        directories == [k \in 1..Len(items) |-> Finding(items[k])]
    IN IF ev.kind \notin {"completed", "nonzero"} THEN Merge(result, ProcessStatus(ev))
       ELSE IF out.file = "absent" THEN result
       ELSE IF out.file = "malformed" \/ \E k \in 1..Len(items) : ~items[k].numeric
       THEN Merge(result, [status |-> "error", error |-> AdapterMessage])
       ELSE Merge(result, [directories |-> SortByStatus(directories),
                           count |-> Len(directories),
                           by_status |-> ByStatus(directories)])

\* ------------------------------------------------------------- wp adapter
\* The front page is or is not a WordPress page (it names no plugin and no
\* theme); the REST user listing raises, answers 200 with a list
\* ("listed"), answers 200 with a body that is not JSON ("invalid"), or
\* answers with another status ("refused"); the author probe of an id is
\* redirected to /author/NAME ("author"), redirected elsewhere, answered
\* with a page, or raises.
\* range(1, 11)
AuthorIds == 1..10

\* users_data[:20]
UserLimit == 20

RECURSIVE ProbeAuthors(_, _)
ProbeAuthors(probes, id) ==
    IF id \notin AuthorIds THEN <<>>
    ELSE (IF probes[id] = "author" THEN <<[id |-> id, username |-> "admin"]>> ELSE <<>>)
         \o ProbeAuthors(probes, id + 1)

Users(out) ==
    CASE out.rest = "listed" ->
             SubSeq(out.users, 1,
                    IF Len(out.users) < UserLimit THEN Len(out.users) ELSE UserLimit)
      [] out.rest = "refused" -> <<>>
      [] OTHER -> ProbeAuthors(out.probes, 1)

run_wp_enum(ev) ==
    LET result == [wordpress_detected |-> FALSE, version |-> Null, plugins |-> <<>>,
                   themes |-> <<>>, users |-> <<>>, vulnerabilities |-> <<>>,
                   status |-> "completed"]
        out == Payload(ev, [wordpress |-> FALSE, rest |-> "refused", users |-> <<>>,
                            probes |-> [id \in AuthorIds |-> "page"]])
    IN IF ev.kind \in {"timeout", "error"} THEN Merge(result, RequestStatus(ev))
       ELSE IF ~out.wordpress THEN result
       ELSE Merge(result, [wordpress_detected |-> TRUE, users |-> Users(out)])

\* handlers.get(module), and the result for an identifier without handler
run_module(module, ev) ==
    CASE module = "waf" -> run_waf_scan(ev)
      [] module = "port" -> run_port_scan(ev)
      [] module = "subdo" -> run_subdomain_scan(ev)
      [] module = "cms" -> run_cms_detection(ev)
      [] module = "tech" -> run_tech_detection(ev)
      [] module = "dir" -> run_directory_scan(ev)
      [] module = "wp" -> run_wp_enum(ev)
      [] OTHER -> [status |-> "unknown_module"]

\* results[module] after the try/except around run_module
ModuleEntry(module, ev) ==
    IF ev.kind = "raise" THEN [error |-> AdapterMessage, status |-> "failed"]
    ELSE run_module(module, ev)

\* scan.results = {"error": str(e)}
ErrorMap(msg) == [k \in {"error"} |-> msg]

\* --------------------------------------------------------------------- state
VARIABLES
    request,    \* the ScanCreate payload submitted, or NoRequest
    db,         \* the persisted Scan row, or NoRow
    scan,       \* the job's in-memory Scan object, or NoRow
    pc,         \* position of the job: none, scheduled, loop, adapter, done
    options,    \* the options argument of run_scan_task
    target,     \* the validated host of the job
    plan,       \* modules_to_run
    i,          \* loop index, from 0
    results,    \* the job's local results dict
    calls,      \* adapter invocations so far, in order
    raised      \* run_scan_task ended by raising to its caller

vars == <<request, db, scan, pc, options, target, plan, i, results, calls, raised>>

jobLocals == <<options, target, plan, i, results>>

Init ==
    /\ request = NoRequest
    /\ db = NoRow
    /\ scan = NoRow
    /\ pc = "none"
    /\ options = EmptyMap
    /\ target = <<>>
    /\ plan = <<>>
    /\ i = 0
    /\ results = EmptyMap
    /\ calls = <<>>
    /\ raised = FALSE

\* Scan(...) as create_scan builds it, with the column defaults
NewScan(t, opts) ==
    [target |-> t, scan_type |-> ScanType(opts), status |-> "pending",
     options |-> opts, results |-> EmptyMap, started_at |-> Null,
     completed_at |-> Null, progress |-> 0, current_module |-> Null]

\* POST /api/scans: insert the row and schedule run_scan_task
create_scan(t, req) ==
    /\ pc = "none"
    /\ db = NoRow
    /\ request' = [target |-> t, options |-> req]
    /\ db' = NewScan(t, ScanOptions(req))
    /\ options' = ScanOptions(req)
    /\ pc' = "scheduled"
    /\ UNCHANGED <<scan, target, plan, i, results, calls, raised>>

\* DELETE /api/scans/{id}
delete_scan ==
    /\ db # NoRow
    /\ db' = NoRow
    /\ UNCHANGED <<request, scan, pc, options, target, plan, i, results, calls, raised>>

\* the job is over: its locals are gone
Return(didRaise) ==
    /\ pc' = "done"
    /\ raised' = didRaise
    /\ scan' = NoRow
    /\ options' = EmptyMap
    /\ target' = <<>>
    /\ plan' = <<>>
    /\ i' = 0
    /\ results' = EmptyMap

\* db.commit() succeeds: the row takes the object's state
Commit(obj) ==
    /\ db # NoRow
    /\ db' = obj

\* db.commit() of obj raises inside the outer try: nothing is persisted, the
\* session either keeps the pending attributes or expires them to the row,
\* and the handler marks the scan failed and commits again
CommitFails(obj) ==
    \E retained \in BOOLEAN, handlerOk \in BOOLEAN :
        LET base == IF retained \/ db = NoRow THEN obj ELSE db
            marked == [base EXCEPT !.status = "failed",
                                   !.results = ErrorMap(PersistenceMessage)]
        IN /\ IF handlerOk /\ db # NoRow THEN db' = marked ELSE db' = db
           /\ Return(~(handlerOk /\ db # NoRow))

\* db.query(Scan)...first() raises: scan is unbound in the handler
LoadFails ==
    /\ pc = "scheduled"
    /\ UNCHANGED <<request, db, calls>>
    /\ Return(TRUE)

\* if not scan: return
LoadMissing ==
    /\ pc = "scheduled"
    /\ db = NoRow
    /\ UNCHANGED <<request, db, calls>>
    /\ Return(FALSE)

\* the scan is started before its target is checked
ValidationFailedAfterStart(row) ==
    [row EXCEPT !.status = "failed", !.started_at = "utcnow",
                !.results = ErrorMap(validate_target(row.target).error)]

\* the validation message is dropped
ValidationFailedNoMessage(row) == [row EXCEPT !.status = "failed"]

ValidationFailed(row) ==
    [row EXCEPT !.status = "failed",
                !.results = ErrorMap(validate_target(row.target).error)]

\* validate_target raises ValueError: mark failed, commit, return
ValidateFail ==
    /\ pc = "scheduled"
    /\ db # NoRow
    /\ ~validate_target(db.target).ok
    /\ Commit(ValidationFailed(db))
    /\ UNCHANGED <<request, calls>>
    /\ Return(FALSE)

ValidateFailCommitFails ==
    /\ pc = "scheduled"
    /\ db # NoRow
    /\ ~validate_target(db.target).ok
    /\ CommitFails(ValidationFailed(db))
    /\ UNCHANGED <<request, calls>>

\* the status is left as it was
RunningKeepsStatus(row) == [row EXCEPT !.started_at = "utcnow", !.progress = 0]

Running(row) ==
    [row EXCEPT !.status = "running", !.started_at = "utcnow", !.progress = 0]

\* the target is valid: persist running, build the module plan
Start ==
    /\ pc = "scheduled"
    /\ db # NoRow
    /\ validate_target(db.target).ok
    /\ Commit(Running(db))
    /\ scan' = db'
    /\ target' = validate_target(db.target).host
    /\ plan' = modules_to_run(options)
    /\ i' = 0
    /\ results' = EmptyMap
    /\ pc' = "loop"
    /\ UNCHANGED <<request, options, calls, raised>>

StartCommitFails ==
    /\ pc = "scheduled"
    /\ db # NoRow
    /\ validate_target(db.target).ok
    /\ CommitFails(Running(db))
    /\ UNCHANGED <<request, calls>>

\* progress counts the module that is about to run as finished
AtModuleCountsStarted(obj, module, index, total) ==
    [obj EXCEPT !.current_module = module, !.progress = Progress(index + 1, total)]

AtModule(obj, module, index, total) ==
    [obj EXCEPT !.current_module = module, !.progress = Progress(index, total)]

\* top of the loop body: current_module, progress, commit
NextModule ==
    /\ pc = "loop"
    /\ i < Len(plan)
    /\ Commit(AtModule(scan, plan[i + 1], i, total_modules(plan)))
    /\ scan' = db'
    /\ pc' = "adapter"
    /\ UNCHANGED <<request, options, target, plan, i, results, calls, raised>>

NextModuleCommitFails ==
    /\ pc = "loop"
    /\ i < Len(plan)
    /\ CommitFails(AtModule(scan, plan[i + 1], i, total_modules(plan)))
    /\ UNCHANGED <<request, calls>>

\* an adapter exception escapes the loop and fails the scan
RunModuleEscapes(ev) ==
    /\ pc = "adapter"
    /\ calls' = Append(calls, [module |-> plan[i + 1], host |-> target, event |-> ev])
    /\ IF ev.kind = "raise"
       THEN /\ db # NoRow
            /\ db' = [scan EXCEPT !.status = "failed",
                                  !.results = ErrorMap(AdapterMessage)]
            /\ Return(FALSE)
            /\ UNCHANGED request
       ELSE /\ results' = Put(results, plan[i + 1], ModuleEntry(plan[i + 1], ev))
            /\ i' = i + 1
            /\ pc' = "loop"
            /\ UNCHANGED <<request, db, scan, options, target, plan, raised>>

\* run_module(module, target, options) inside try/except Exception
RunModule(ev) ==
    /\ pc = "adapter"
    /\ calls' = Append(calls, [module |-> plan[i + 1], host |-> target, event |-> ev])
    /\ results' = Put(results, plan[i + 1], ModuleEntry(plan[i + 1], ev))
    /\ i' = i + 1
    /\ pc' = "loop"
    /\ UNCHANGED <<request, db, scan, options, target, plan, raised>>

\* the terminal assignment leaves the status alone
CompletedStaysRunning(obj, res) ==
    [obj EXCEPT !.progress = 100, !.current_module = Null,
                !.completed_at = "utcnow", !.results = res]

\* the results of the run are not stored
CompletedDropsResults(obj, res) ==
    [obj EXCEPT !.status = "completed", !.progress = 100,
                !.current_module = Null, !.completed_at = "utcnow"]

Completed(obj, res) ==
    [obj EXCEPT !.status = "completed", !.progress = 100,
                !.current_module = Null, !.completed_at = "utcnow",
                !.results = res]

\* after the loop: the terminal commit
Finish ==
    /\ pc = "loop"
    /\ i = Len(plan)
    /\ Commit(Completed(scan, results))
    /\ UNCHANGED <<request, calls>>
    /\ Return(FALSE)

FinishCommitFails ==
    /\ pc = "loop"
    /\ i = Len(plan)
    /\ CommitFails(Completed(scan, results))
    /\ UNCHANGED <<request, calls>>

\* ------------------------------------------------------------------- inputs
BoolMaps == [ModuleSet -> BOOLEAN]

ValidHost == <<"a", ".", "a">>
EtcPasswd == <<".", ".", "/", ".", ".", "/", "e", "t", "c", "/",
               "p", "a", "s", "s", "w", "d">>
SampleTargets == {ValidHost, EtcPasswd, <<>>}

Strings(A, n) == UNION {[1..k -> A] : k \in 0..n}

\* free-form targets: an optional scheme-like prefix and a short body
Alphabet == {"a", "1", ".", "-", ":", "/", ";", "|", "&", "NUL", " "}
Prefixes == {<<>>, HttpScheme, HttpsScheme, FileScheme}
GeneralRaw == {p \o b : p \in Prefixes, b \in Strings(Alphabet, MaxLen)}

\* host-shaped targets: optional scheme, host characters or a dotted quad,
\* optional port
HostAlphabet == {"a", "1", ".", "-"}
Schemes == {<<>>, HttpScheme, HttpsScheme}
PortSuffixes == {<<>>, <<":", "8", "0">>}
Octets == Strings({"1"}, MaxOctetLen) \ {<<>>}
\* a first octet may also be written with a digit outside ASCII
DottedQuads ==
    {a \o <<".">> \o b \o <<".">> \o c \o <<".">> \o d :
        a \in Octets \cup {<<ArabicIndicOne>>}, b \in Octets, c \in Octets, d \in Octets}
HostRaw ==
    {s \o h \o p : s \in Schemes,
                   h \in Strings(HostAlphabet, MaxHostLen) \cup DottedQuads,
                   p \in PortSuffixes}

RawTargets == GeneralRaw \cup HostRaw \cup {EtcPasswd}

\* request bodies that leave module flags out
PartialMaps == UNION {[D -> BOOLEAN] : D \in SUBSET ModuleSet}

Next ==
    \/ pc = "none" /\ \E t \in SampleTargets, req \in BoolMaps : create_scan(t, req)
    \/ delete_scan
    \/ LoadFails
    \/ LoadMissing
    \/ ValidateFail
    \/ ValidateFailCommitFails
    \/ Start
    \/ StartCommitFails
    \/ NextModule
    \/ NextModuleCommitFails
    \/ \E o \in AdapterOutcomes : RunModule(Call(o))
    \/ Finish
    \/ FinishCommitFails

Spec == Init /\ [][Next]_vars

\* a request body that leaves waf and port to their defaults and turns the
\* other modules off
WafAndPort ==
    [m \in {"subdo", "cms", "tech", "dir", "wp"} |-> FALSE]

\* every target, the modules waf and port, adapters and persistence that do
\* not fail
NextValidate ==
    \/ pc = "none" /\ \E t \in RawTargets : create_scan(t, WafAndPort)
    \/ ValidateFail
    \/ Start
    \/ NextModule
    \/ RunModule(Call("completed"))
    \/ Finish

SpecValidate == Init /\ [][NextValidate]_vars

\* every request body, one valid target, adapters and persistence that do not
\* fail
NextPlan ==
    \/ pc = "none" /\ \E req \in PartialMaps : create_scan(ValidHost, req)
    \/ Start
    \/ NextModule
    \/ RunModule(Call("completed"))
    \/ Finish

SpecPlan == Init /\ [][NextPlan]_vars

\* run_scan_task called again for the same scan id: the function loads the
\* row whatever its status
Reinvoke ==
    /\ pc = "done"
    /\ db # NoRow
    /\ Len(calls) < MaxCalls
    /\ pc' = "scheduled"
    /\ options' = db.options
    /\ raised' = FALSE
    /\ UNCHANGED <<request, db, scan, target, plan, i, results, calls>>

\* a job entry point that may be invoked more than once for a scan
NextRerun ==
    \/ pc = "none" /\ \E t \in SampleTargets, req \in BoolMaps : create_scan(t, req)
    \/ ValidateFail
    \/ Start
    \/ NextModule
    \/ RunModule(Call("completed"))
    \/ Finish
    \/ Reinvoke

SpecRerun == Init /\ [][NextRerun]_vars

\* the steps of run_scan_task
JobStep ==
    \/ LoadFails
    \/ LoadMissing
    \/ ValidateFail
    \/ ValidateFailCommitFails
    \/ Start
    \/ StartCommitFails
    \/ NextModule
    \/ NextModuleCommitFails
    \/ \E o \in AdapterOutcomes : RunModule(Call(o))
    \/ Finish
    \/ FinishCommitFails

\* one scan of any sample target with the modules waf and port, deletion at
\* any time, every adapter outcome and every persistence failure; the
\* scheduled job is run and each of its steps returns or raises
NextLive ==
    \/ pc = "none" /\ \E t \in SampleTargets : create_scan(t, WafAndPort)
    \/ delete_scan
    \/ JobStep

SpecLive == Init /\ [][NextLive]_vars /\ WF_vars(JobStep)

\* a request that enables one module only
OnlyModule(m) == [x \in ModuleSet |-> x = m]

\* nmap output: open ports of every risk class, and lines that are not open
\* port lines
PortTexts ==
    {<<"2", "1">>, <<"2", "3">>, <<"3", "3", "8", "9">>, <<"5", "9", "0", "0">>,
     <<"2", "2">>, <<"2", "5">>, <<"1", "1", "0">>, <<"1", "4", "3">>,
     <<"3", "3", "0", "6">>, <<"5", "4", "3", "2">>, <<"8", "0">>, <<"0", "2", "1">>}
Tcp == <<"/", "t", "c", "p">>
PortLines ==
    {[head |-> p \o Tcp, fields |-> <<"open", "svc">>] : p \in PortTexts}
    \cup {[head |-> <<"2", "2">> \o Tcp, fields |-> <<"open", "ssh", "OpenSSH", "8.2p1">>],
          [head |-> <<"5", "3", "/", "u", "d", "p">>, fields |-> <<"open", "domain">>],
          [head |-> <<"2", "3">> \o Tcp, fields |-> <<"closed", "telnet">>],
          [head |-> <<"2", "1">> \o Tcp, fields |-> <<"open|filtered", "ftp">>],
          [head |-> <<"2", "1">> \o Tcp, fields |-> <<"open">>],
          [head |-> <<>>, fields |-> <<"21/tcp", "open", "ftp">>],
          [head |-> <<"P", "O", "R", "T">>, fields |-> <<"STATE", "SERVICE">>]}

Outputs(lines) == UNION {[1..k -> lines] : k \in 0..MaxLines}

PortEvents ==
    {Event(kind, out, Tool("completed", <<>>)) :
        kind \in {"completed", "nonzero"}, out \in Outputs(PortLines)}
    \cup {Call(kind) : kind \in {"timeout", "missing", "error"}}

\* what subfinder and assetfinder print: a name, the same name in another
\* case, a line without a dot, a name with an operational prefix
SubdomainLines ==
    {<<"b", ".", "a">>, <<"B", ".", "a">>, <<"a">>, <<"m", "a", "i", "l", ".", "a">>}

ToolEvents ==
    {Tool(kind, out) : kind \in {"completed", "nonzero"}, out \in Outputs(SubdomainLines)}
    \cup {Tool(kind, <<>>) : kind \in {"timeout", "missing", "error"}}

\* 121 distinct names in descending order, more than the display list holds
ManyNames ==
    [k \in 1..121 |->
        <<Collation[23 - ((k - 1) \div 11)], Collation[23 - ((k - 1) % 11)], ".", "a">>]

SubdomainEvents ==
    {Event(a.kind, a.out, b) : a \in ToolEvents, b \in ToolEvents}
    \cup {Event("completed", ManyNames, Tool("missing", <<>>))}

\* the subsets of S with at most n elements
RECURSIVE UpTo(_, _)
UpTo(S, n) ==
    IF n = 0 THEN {{}}
    ELSE LET smaller == UpTo(S, n - 1)
         IN smaller \cup {p \cup {x} : p \in smaller, x \in S}

\* every signature of the table
Signatures ==
    UNION {{Signature(cms_signatures[k].name, "pattern", n) : n \in 1..cms_signatures[k].patterns}
           \cup {Signature(cms_signatures[k].name, "meta", n) :
                     n \in 1..(IF cms_signatures[k].meta THEN 1 ELSE 0)}
           \cup {Signature(cms_signatures[k].name, "cookie", n) : n \in 1..cms_signatures[k].cookies} :
           k \in 1..Len(cms_signatures)}

CmsEvents ==
    {Event("completed", [hits |-> h], Tool("completed", <<>>)) : h \in UpTo(Signatures, MaxHits)}
    \cup {Call(kind) : kind \in {"timeout", "error"}}

WafEvents ==
    {Event(kind, [verdict |-> v], Tool("completed", <<>>)) :
        kind \in {"completed", "nonzero"}, v \in {"behind", "unprotected", "unrecognised"}}
    \cup {Call(kind) : kind \in {"timeout", "missing", "error"}}

\* Server headers: absent, the three recognised servers (one in capitals),
\* an unrecognised one
ServerHeaders ==
    {<<>>, Nginx, <<"N", "G", "I", "N", "X">>, <<"A", "p", "a", "c", "h", "e", "/", "2">>, LowerStr(Cloudflare), <<"I", "I", "S">>}

TechEvents ==
    {Event("completed", [server |-> sv, powered |-> pw, body |-> b], Tool("completed", <<>>)) :
        sv \in ServerHeaders, pw \in {<<>>, <<"P", "H", "P">>, Nginx, Cloudflare},
        b \in UpTo(1..Len(tech_patterns), MaxHits)}
    \cup {Call(kind) : kind \in {"timeout", "error"}}

\* what dirsearch reports: findings of every severity class, two paths, and
\* an item whose status is not a number
DirectoryItems ==
    {[status |-> st, path |-> p, numeric |-> TRUE] :
        st \in {200, 301, 403, 404, 500, 503}, p \in {"/a", "/b"}}
    \cup {[status |-> 0, path |-> "/a", numeric |-> FALSE]}

DirectoryEvents ==
    {Event(kind, f, Tool("completed", <<>>)) :
        kind \in {"completed", "nonzero"},
        f \in {[file |-> "absent", items |-> <<>>], [file |-> "malformed", items |-> <<>>]}
               \cup {[file |-> "results", items |-> its] : its \in Outputs(DirectoryItems)}}
    \cup {Call(kind) : kind \in {"timeout", "missing", "error"}}

\* the probes of the ids 1, 2 and 10 are answered in every way, the others
\* with a page
ProbeAnswers ==
    {[id \in AuthorIds |-> IF id \in DOMAIN f THEN f[id] ELSE "page"] :
        f \in [{1, 2, 10} -> {"author", "elsewhere", "page", "raises"}]}

WpPages ==
    {[wordpress |-> FALSE, rest |-> "refused", users |-> <<>>, probes |-> [id \in AuthorIds |-> "page"]]}
    \cup {[wordpress |-> TRUE, rest |-> "listed", users |-> us, probes |-> [id \in AuthorIds |-> "page"]] :
             us \in Outputs({[id |-> 1, username |-> "admin"],
                                [id |-> 2, username |-> "editor"]})}
    \cup {[wordpress |-> TRUE, rest |-> r, users |-> <<>>, probes |-> p] :
             r \in {"raises", "invalid", "refused"}, p \in ProbeAnswers}

WpEvents ==
    {Event("completed", page, Tool("completed", <<>>)) : page \in WpPages}
    \cup {Call(kind) : kind \in {"timeout", "error"}}

\* one scan of a valid target with one module alone, every outcome and
\* output of its tools, persistence that does not fail
NextAdapters ==
    \/ pc = "none" /\ \E m \in ModuleSet : create_scan(ValidHost, OnlyModule(m))
    \/ Start
    \/ NextModule
    \/ pc = "adapter" /\ plan[i + 1] = "waf" /\ \E ev \in WafEvents : RunModule(ev)
    \/ pc = "adapter" /\ plan[i + 1] = "port" /\ \E ev \in PortEvents : RunModule(ev)
    \/ pc = "adapter" /\ plan[i + 1] = "subdo" /\ \E ev \in SubdomainEvents : RunModule(ev)
    \/ pc = "adapter" /\ plan[i + 1] = "cms" /\ \E ev \in CmsEvents : RunModule(ev)
    \/ pc = "adapter" /\ plan[i + 1] = "tech" /\ \E ev \in TechEvents : RunModule(ev)
    \/ pc = "adapter" /\ plan[i + 1] = "dir" /\ \E ev \in DirectoryEvents : RunModule(ev)
    \/ pc = "adapter" /\ plan[i + 1] = "wp" /\ \E ev \in WpEvents : RunModule(ev)
    \/ Finish

SpecAdapters == Init /\ [][NextAdapters]_vars

\* ------------------------------------------------------------ properties
CallModules == [k \in 1..Len(calls) |-> calls[k].module]

TargetValid == request # NoRequest /\ validate_target(request.target).ok
TargetInvalid == request # NoRequest /\ ~validate_target(request.target).ok

\* a load or a commit of the run has raised
PersistenceFailed ==
    \/ raised
    \/ db # NoRow /\ db.results = ErrorMap(PersistenceMessage)

Terminal == {"completed", "failed"}

\* C1: whatever subset of adapters raises or returns an error or a timeout,
\* the adapters of the plan are invoked once each in plan order, a scan is
\* failed only with a validation or persistence message, and a run on a
\* valid target without persistence failure ends completed.
C1_PartialFailureIsolation ==
    /\ pc \in {"loop", "adapter"} => CallModules = SubSeq(plan, 1, i)
    /\ (db # NoRow /\ db.status = "completed") =>
           CallModules = modules_to_run(db.options)
    /\ (pc = "done" /\ db # NoRow /\ ~PersistenceFailed /\ TargetValid) =>
           db.status = "completed"
    /\ (db # NoRow /\ db.status = "failed") =>
           \/ db.results = ErrorMap(PersistenceMessage)
           \/ /\ ~validate_target(db.target).ok
              /\ db.results = ErrorMap(validate_target(db.target).error)

C1_Witness ==
    /\ db # NoRow
    /\ db.status = "completed"
    /\ Len(calls) = 7
    /\ db.results["waf"].status = "failed"
    /\ db.results["port"].status = "timeout"
    /\ db.results["subdo"].status = "error"
    /\ db.results["cms"].status = "completed"

\* what the claim calls a dangerous raw target
HasDangerous(raw) ==
    \/ Contains(raw, <<".", ".">>)
    \/ Contains(raw, <<";">>)
    \/ Contains(raw, <<"|">>)
    \/ Contains(raw, <<"&">>)
    \/ Contains(raw, <<"NUL">>)
    \/ StartsWith(raw, FileScheme)

\* C2: every raw target that holds "..", ";", "|", "&" or a NUL byte
\* anywhere, or starts with file://, is rejected and no module executes.
C2_DangerousTargetsRejected ==
    (request # NoRequest /\ HasDangerous(request.target)) =>
        /\ ~validate_target(request.target).ok
        /\ calls = <<>>

\* C3: when validation fails no adapter is invoked, the scan never passes
\* through running, started_at, progress and current_module stay as created,
\* and the run persists failed with the non-empty validation message.
C3_ValidationFailureIsFatal ==
    (request # NoRequest /\ db # NoRow) =>
        \/ /\ calls = <<>>
           /\ pc \in {"scheduled", "done"}
           /\ db.status \in {"pending", "failed"}
           /\ db.started_at = Null
           /\ db.progress = 0
           /\ db.current_module = Null
           /\ pc = "done" =>
                 /\ db.status = "failed"
                 /\ "error" \in DOMAIN db.results
                 /\ db.results["error"] # <<>>
        \/ validate_target(request.target).ok

C3_Witness ==
    /\ pc = "done"
    /\ request.target = HttpScheme \o <<"a", ";">>
    /\ db.status = "failed"
    /\ db.started_at = Null

SchemeStripped(raw) ==
    IF StartsWith(raw, HttpsScheme) THEN SubSeq(raw, Len(HttpsScheme) + 1, Len(raw))
    ELSE IF StartsWith(raw, HttpScheme) THEN SubSeq(raw, Len(HttpScheme) + 1, Len(raw))
    ELSE raw

PortStripped(x) ==
    LET cuts == {k \in 1..(Len(x) - 1) :
                    x[k] = ":" /\ \A j \in (k + 1)..Len(x) : x[j] \in Digits}
    IN IF cuts = {} THEN x ELSE SubSeq(x, 1, (CHOOSE k \in cuts : TRUE) - 1)

HostPart(raw) == PortStripped(SchemeStripped(raw))

\* alphanumeric, dot, hyphen, not starting or ending with a separator
IsHostname(h) ==
    /\ Len(h) >= 1
    /\ \A k \in 1..Len(h) : h[k] \in Alnum \cup {".", "-"}
    /\ h[1] \notin {".", "-"}
    /\ h[Len(h)] \notin {".", "-"}

\* four groups of one to three digits separated by dots
IsDottedQuad(h) ==
    /\ Len(h) \in 7..15
    /\ \A k \in 1..Len(h) : h[k] \in Digits \cup {"."}
    /\ \E p1 \in 2..4, p2 \in 4..8, p3 \in 6..12 :
        /\ p1 < p2 /\ p2 < p3 /\ p3 < Len(h)
        /\ \A k \in 1..Len(h) : h[k] = "." <=> k \in {p1, p2, p3}
        /\ p2 - p1 - 1 \in 1..3
        /\ p3 - p2 - 1 \in 1..3
        /\ Len(h) - p3 \in 1..3

\* the host the claim names comes out of validate_target and reaches the
\* adapters
HostAccepted(raw, h) ==
    /\ validate_target(raw) = Ok(h)
    /\ \A k \in 1..Len(calls) : calls[k].host = h

\* C5 as stated: every host name of the grammar and every dotted quad, with
\* an optional scheme and port, validates to exactly its host part.
C5_EveryGrammarHostAccepted ==
    request # NoRequest =>
        \A h \in {HostPart(request.target)} :
            (IsHostname(h) \/ IsDottedQuad(h)) => HostAccepted(request.target, h)

\* C5 amended: every host name of the grammar that holds no two adjacent
\* dots, and every dotted quad, with an optional scheme and port, validates
\* to exactly its host part.
C5_HostsWithoutEmptyLabelAccepted ==
    request # NoRequest =>
        \A h \in {HostPart(request.target)} :
            (~Contains(h, <<".", ".">>) /\ (IsHostname(h) \/ IsDottedQuad(h))) =>
                HostAccepted(request.target, h)

C5_Witness ==
    /\ pc = "done"
    /\ request.target = HttpsScheme \o <<"1", ".", "1", "1", ".", "1", ".", "1">>
                                    \o <<":", "8", "0">>
    /\ db.status = "completed"
    /\ calls[1].host = <<"1", ".", "1", "1", ".", "1", ".", "1">>

C7_TerminalClearsCurrentModule ==
    (db # NoRow /\ db.status \in Terminal) => db.current_module = Null

\* C8: a pending scan has empty results and progress 0.
C8_PendingIsBlank ==
    (db # NoRow /\ db.status = "pending") =>
        /\ db.results = EmptyMap
        /\ db.progress = 0

C8_Witness ==
    /\ pc = "scheduled"
    /\ db # NoRow
    /\ db.status = "pending"
    /\ db.target = ValidHost

AllowedTransitions ==
    {<<"pending", "running">>, <<"running", "completed">>,
     <<"pending", "failed">>, <<"running", "failed">>}

\* C9: the status only moves pending->running, running->completed,
\* pending->failed or running->failed, and once a scan is completed or failed
\* no run of the job changes its status, progress or results.
C9_OnlyForwardTransitions ==
    [][(db # NoRow /\ db' # NoRow) =>
          /\ db'.status = db.status \/ <<db.status, db'.status>> \in AllowedTransitions
          /\ db.status \in Terminal =>
                /\ db'.status = db.status
                /\ db'.progress = db.progress
                /\ db'.results = db.results]_vars

\* the plan as the claim states it
ClaimOrder == <<"waf", "port", "subdo", "cms", "tech", "dir", "wp">>
FlagOf(req, m) ==
    IF m \in DOMAIN req THEN req[m]
    ELSE m \in {"waf", "port", "subdo", "cms", "tech", "dir"}
ExpectedPlan(req) == SelectSeq(ClaimOrder, LAMBDA m : FlagOf(req, m))

\* C10: the plan is the subsequence of waf, port, subdo, cms, tech, dir, wp
\* of the modules whose flag is true, an absent flag counting as true except
\* for wp, and the adapters are invoked in this order.
C10_PlanIsFlaggedSubsequence ==
    request # NoRequest =>
        /\ modules_to_run(request.options) = ExpectedPlan(request.options)
        /\ pc \in {"loop", "adapter"} =>
              /\ plan = ExpectedPlan(request.options)
              /\ CallModules = SubSeq(plan, 1, i)
        /\ pc = "done" => CallModules = ExpectedPlan(request.options)

C10_Witness ==
    /\ pc = "done"
    /\ DOMAIN request.options = {"port", "wp"}
    /\ ~request.options["port"]
    /\ request.options["wp"]
    /\ CallModules = <<"waf", "subdo", "cms", "tech", "dir", "wp">>

\* the modules of a plan
PlanSet(p) == {p[k] : k \in 1..Len(p)}

\* C11: a completed scan holds one results entry per module of its plan and
\* no other, progress 100 and no current module; a run with an empty plan
\* completes with empty results, and the divisor of the progress arithmetic
\* is never zero.
C11_CompletedResultsMatchPlan ==
    /\ (db # NoRow /\ db.status = "completed") =>
           /\ DOMAIN db.results = PlanSet(modules_to_run(db.options))
           /\ \A m \in DOMAIN db.results : "status" \in DOMAIN db.results[m]
           /\ db.progress = 100
           /\ db.current_module = Null
    /\ pc \in {"loop", "adapter"} => total_modules(plan) > 0
    /\ (pc = "done" /\ db # NoRow /\ ~PersistenceFailed
           /\ modules_to_run(db.options) = <<>> /\ TargetValid) =>
           /\ db.status = "completed"
           /\ db.results = EmptyMap
           /\ db.progress = 100

C11_Witness ==
    /\ pc = "done"
    /\ db # NoRow
    /\ db.status = "completed"
    /\ \A m \in ModuleSet : ~db.options[m]
    /\ db.results = EmptyMap
    /\ db.progress = 100
    /\ calls = <<>>

\* the module results a run has produced so far: the job's results while it
\* runs, the persisted results of a completed scan
ResultsSoFar ==
    IF pc \in {"loop", "adapter"} THEN results
    ELSE IF db # NoRow /\ db.status = "completed" THEN db.results
    ELSE EmptyMap

\* C12: when an adapter invocation raises, the module's result is status
\* error with the exception message, and the modules after it are still
\* invoked.
C12_RaisedAdapterStoredAsError ==
    /\ \A k \in 1..Len(calls) :
           (calls[k].event.kind = "raise" /\ calls[k].module \in DOMAIN ResultsSoFar) =>
               ResultsSoFar[calls[k].module] = [status |-> "error", error |-> AdapterMessage]
    /\ pc \in {"loop", "adapter"} => CallModules = SubSeq(plan, 1, i)

ModuleStatuses == {"completed", "timeout", "error"}

\* C13: every module result of a scan has a status among completed, timeout
\* and error, and an error message when its status is not completed.
C13_ModuleResultsWellFormed ==
    \A m \in DOMAIN ResultsSoFar :
        /\ "status" \in DOMAIN ResultsSoFar[m]
        /\ ResultsSoFar[m].status \in ModuleStatuses
        /\ ResultsSoFar[m].status # "completed" =>
               /\ "error" \in DOMAIN ResultsSoFar[m]
               /\ ResultsSoFar[m].error # <<>>

\* C14: an adapter whose external call exceeds its time bound yields status
\* timeout for its module, the rest of the plan runs and the scan ends
\* completed.
C14_TimeoutYieldsTimeoutStatus ==
    /\ \A k \in 1..Len(calls) :
           (calls[k].event.kind = "timeout" /\ calls[k].module \in DOMAIN ResultsSoFar) =>
               ResultsSoFar[calls[k].module].status = "timeout"
    /\ (pc = "done" /\ db # NoRow /\ TargetValid /\ ~PersistenceFailed) =>
           /\ db.status = "completed"
           /\ CallModules = modules_to_run(db.options)

\* C15: while module k+1 of the plan is being executed the persisted results
\* hold the results of modules 1..k.
C15_PersistedResultsAccumulate ==
    (pc = "adapter" /\ db # NoRow) =>
        \A j \in 1..i :
            /\ plan[j] \in DOMAIN db.results
            /\ db.results[plan[j]] = results[plan[j]]

\* the progress values of the module boundaries of an n-module plan
BoundaryValues(n) == {(100 * j) \div n : j \in 0..(n - 1)}

\* C16: the adapters of a job are invoked one after the other in plan order;
\* while the adapter of module i (from 0) of an n-module plan executes, the
\* persisted scan is running with that module as current_module and progress
\* floor(100*i/n); while the job is in its loop the persisted current_module
\* is null or the module last started, and the persisted progress is always
\* a module-boundary value, 0 or 100.
C16_ReaderSeesModuleBoundaries ==
    /\ pc \in {"loop", "adapter"} =>
           /\ i <= Len(plan)
           /\ CallModules = SubSeq(plan, 1, i)
    /\ (pc = "adapter" /\ db # NoRow) =>
           /\ db.status = "running"
           /\ db.current_module = plan[i + 1]
           /\ db.progress = (100 * i) \div Len(plan)
    /\ (pc = "loop" /\ db # NoRow) =>
           /\ db.status = "running"
           /\ db.current_module = IF i = 0 THEN Null ELSE plan[i]
    /\ db # NoRow =>
           db.progress \in BoundaryValues(Len(modules_to_run(db.options))) \cup {0, 100}

C16_Witness ==
    /\ pc = "adapter"
    /\ db # NoRow
    /\ Len(plan) = 7
    /\ i = 2
    /\ CallModules = <<"waf", "port">>
    /\ db.current_module = "subdo"
    /\ db.progress = 28

\* C17: once a load or a commit of a run has failed the job invokes no
\* further adapter; the scan is then either persisted as failed with the
\* exception message or left as last committed, and the run does not raise to
\* its caller.
C17_PersistenceFailureContained ==
    /\ PersistenceFailed => pc = "done"
    /\ (db # NoRow /\ db.results = ErrorMap(PersistenceMessage)) => db.status = "failed"
    /\ pc = "done" => ~raised

\* the risk table as the claim states it
ClaimRisk(n) ==
    CASE n \in {21, 23, 3389, 5900} -> "high"
      [] n \in {22, 25, 110, 143, 3306, 5432} -> "medium"
      [] OTHER -> "low"

\* a line PORT/PROTO open SERVICE ... of the tool
ReportsOpenPort(line) ==
    /\ line.head # <<>>
    /\ TakeUntil(line.head, {"/"}) # <<>>
    /\ Len(TakeUntil(line.head, {"/"})) < Len(line.head) - 1
    /\ \A c \in {line.head[k] : k \in 1..Len(line.head)} : c \in Alnum \cup {"/", "_"}
    /\ \A k \in 1..Len(TakeUntil(line.head, {"/"})) : line.head[k] \in Digits
    /\ Cardinality({k \in 1..Len(line.head) : line.head[k] = "/"}) = 1
    /\ Len(line.fields) >= 2
    /\ line.fields[1] = "open"

\* C18: the port adapter lists the open ports the tool reported, one entry
\* per reported line in the tool's order, each with the risk of the claim's
\* table, and count is the length of the list.
C18_PortRiskAndOrder ==
    \A k \in 1..Len(calls) :
        (/\ calls[k].module = "port"
         /\ calls[k].event.kind \in {"completed", "nonzero"}
         /\ "port" \in DOMAIN ResultsSoFar) =>
            LET r == ResultsSoFar["port"]
                reported == SelectSeq(calls[k].event.out, ReportsOpenPort)
            IN /\ r.status = "completed"
               /\ r.count = Len(r.open_ports)
               /\ Len(r.open_ports) = Len(reported)
               /\ \A j \in 1..Len(r.open_ports) :
                      /\ r.open_ports[j].port = ToInt(TakeUntil(reported[j].head, {"/"}))
                      /\ r.open_ports[j].service = reported[j].fields[2]
                      /\ r.open_ports[j].risk = ClaimRisk(r.open_ports[j].port)

C18_Witness ==
    /\ pc = "done"
    /\ db # NoRow
    /\ db.status = "completed"
    /\ Len(calls) = 1
    /\ calls[1].module = "port"
    /\ calls[1].event.kind = "completed"
    /\ Len(calls[1].event.out) = 2
    /\ calls[1].event.out[1].fields = <<"closed", "telnet">>
    /\ calls[1].event.out[2].head = <<"3", "3", "8", "9">> \o Tcp
    /\ db.results["port"].count = 1
    /\ db.results["port"].open_ports[1].port = 3389
    /\ db.results["port"].open_ports[1].risk = "high"

\* neither enumeration tool returned with exit status 0
BothSourcesFail(ev) == ev.kind # "completed" /\ ev.second.kind # "completed"

\* C19: when both subdomain sources fail the module's result is status
\* error with no subdomains and count 0, whatever the tools printed.
C19_BothSourcesFailEmptyError ==
    \A k \in 1..Len(calls) :
        (/\ calls[k].module = "subdo"
         /\ BothSourcesFail(calls[k].event)
         /\ "subdo" \in DOMAIN ResultsSoFar) =>
            /\ ResultsSoFar["subdo"].status = "error"
            /\ ResultsSoFar["subdo"].subdomains = <<>>
            /\ ResultsSoFar["subdo"].count = 0

\* the job has started and not ended
JobRunning == pc \in {"loop", "adapter"}

\* C20: one job is scheduled per created scan, and while the job of a scan
\* runs its record is changed or deleted only by steps of that job.
C20_SingleWriter ==
    [][/\ pc' = "scheduled" => (pc = "none" \/ pc = "scheduled")
       /\ (JobRunning /\ db' # db) => pc' # pc]_vars

\* the lines the tools of an invocation printed before they returned
PrintedLines(ev) ==
    (IF ev.kind \in {"completed", "nonzero"}
     THEN {ev.out[k] : k \in 1..Len(ev.out)} ELSE {})
    \cup (IF ev.second.kind \in {"completed", "nonzero"}
          THEN {ev.second.out[k] : k \in 1..Len(ev.second.out)} ELSE {})

\* the names collected: the printed lines that hold a dot, without case
CollectedNames(ev) ==
    {LowerStr(Strip(l)) : l \in {x \in PrintedLines(ev) : Contains(x, <<".">>)}}

\* C21: the subdomain result is status error exactly when no source
\* succeeded; otherwise it is completed, count and total_found are the number
\* of distinct case-normalized names collected, and the display list holds
\* the first 100 of them in ascending order.
C21_SubdomainStatusAndUnion ==
    \A k \in 1..Len(calls) :
        (calls[k].module = "subdo" /\ "subdo" \in DOMAIN ResultsSoFar) =>
            LET r == ResultsSoFar["subdo"]
                names == CollectedNames(calls[k].event)
                shown == {r.subdomains[j].subdomain : j \in 1..Len(r.subdomains)}
            IN /\ r.status = "error" <=> BothSourcesFail(calls[k].event)
               /\ r.status \in {"error", "completed"}
               /\ ~BothSourcesFail(calls[k].event) =>
                      /\ r.count = Cardinality(names)
                      /\ r.total_found = Cardinality(names)
                      /\ Len(r.subdomains) =
                             (IF Cardinality(names) < 100 THEN Cardinality(names) ELSE 100)
                      /\ shown \subseteq names
                      /\ \A j \in 1..(Len(r.subdomains) - 1) :
                             StrLess(r.subdomains[j].subdomain, r.subdomains[j + 1].subdomain)
                      /\ \A x \in names \ shown, y \in shown : StrLess(y, x)

C21_Witness ==
    /\ pc = "done"
    /\ db # NoRow
    /\ db.status = "completed"
    /\ Len(calls) = 1
    /\ calls[1].module = "subdo"
    /\ calls[1].event.out = ManyNames
    /\ db.results["subdo"].status = "completed"
    /\ db.results["subdo"].count = 121
    /\ Len(db.results["subdo"].subdomains) = 100
    /\ db.results["subdo"].subdomains[1].subdomain = <<"a", "a", ".", "a">>

\* the score of a candidate as the claim counts it
ClaimScore(name, hits) ==
    Cardinality({h \in hits : h.cms = name /\ h.part = "pattern"})
        + 2 * Cardinality({h \in hits : h.cms = name /\ h.part = "meta"})
        + 2 * Cardinality({h \in hits : h.cms = name /\ h.part = "cookie"})

ClaimTable == <<"WordPress", "Joomla", "Drupal", "Shopify", "Laravel", "Magento">>

\* a cms invocation that got a response, with its result
CmsResponses ==
    {k \in 1..Len(calls) :
        /\ calls[k].module = "cms"
        /\ calls[k].event.kind = "completed"
        /\ "cms" \in DOMAIN ResultsSoFar}

\* C22: no candidate of the table has a strictly greater score than the CMS
\* the adapter reports.
C22_ReportedCmsScoresHighest ==
    \A k \in CmsResponses :
        LET r == ResultsSoFar["cms"]
            hits == calls[k].event.out.hits
        IN r.cms_name # Null =>
               \A c \in 1..Len(ClaimTable) :
                   ClaimScore(ClaimTable[c], hits) <= ClaimScore(r.cms_name, hits)

\* C23: detected is true exactly when a candidate scores; the reported CMS
\* is then the first scoring candidate of the table order, with confidence
\* high from 3 points, medium at 2, low at 1; otherwise cms_name is null and
\* confidence low.
C23_FirstScoringCandidateReported ==
    \A k \in CmsResponses :
        LET r == ResultsSoFar["cms"]
            hits == calls[k].event.out.hits
            scoring == {c \in 1..Len(ClaimTable) : ClaimScore(ClaimTable[c], hits) > 0}
        IN /\ r.detected <=> scoring # {}
           /\ scoring = {} => (r.cms_name = Null /\ r.confidence = "low")
           /\ scoring # {} =>
                  LET first == CHOOSE c \in scoring : \A d \in scoring : c <= d
                      score == ClaimScore(ClaimTable[first], hits)
                  IN /\ r.cms_name = ClaimTable[first]
                     /\ r.confidence = (CASE score >= 3 -> "high"
                                          [] score = 2 -> "medium"
                                          [] OTHER -> "low")

C23_Witness ==
    /\ pc = "done"
    /\ db # NoRow
    /\ db.status = "completed"
    /\ Len(calls) = 1
    /\ calls[1].module = "cms"
    /\ calls[1].event.kind = "completed"
    /\ DOMAIN calls[1].event.out = {"hits"}
    /\ calls[1].event.out.hits = {Signature("WordPress", "pattern", 3),
                                  Signature("Joomla", "meta", 1),
                                  Signature("Joomla", "pattern", 1)}
    /\ db.results["cms"].cms_name = "WordPress"
    /\ db.results["cms"].confidence = "low"

\* the sum of the values of a function with a finite domain
RECURSIVE SumOf(_)
SumOf(f) ==
    IF DOMAIN f = {} THEN 0
    ELSE LET x == CHOOSE y \in DOMAIN f : TRUE
         IN f[x] + SumOf([y \in DOMAIN f \ {x} |-> f[y]])

\* C24: in the result of the directory adapter every finding has severity
\* success for status 200, warning for 403, error from 500 on, info
\* otherwise; the findings are in ascending order of status; the values of
\* by_status sum to count, which is the number of findings.
C24_DirectoryFindingsClassified ==
    \A k \in 1..Len(calls) :
        (calls[k].module = "dir" /\ "dir" \in DOMAIN ResultsSoFar) =>
            LET r == ResultsSoFar["dir"]
            IN /\ \A j \in 1..Len(r.directories) :
                      r.directories[j].severity =
                          (CASE r.directories[j].status = 200 -> "success"
                             [] r.directories[j].status = 403 -> "warning"
                             [] r.directories[j].status >= 500 -> "error"
                             [] OTHER -> "info")
               /\ \A j \in 1..(Len(r.directories) - 1) :
                      r.directories[j].status <= r.directories[j + 1].status
               /\ SumOf(r.by_status) = r.count
               /\ r.count = Len(r.directories)
               /\ (r.status = "completed" /\ DOMAIN calls[k].event.out # {}
                      /\ calls[k].event.out.file = "results") =>
                      r.count = Len(calls[k].event.out.items)

C24_Witness ==
    /\ pc = "done"
    /\ db # NoRow
    /\ db.status = "completed"
    /\ Len(calls) = 1
    /\ calls[1].module = "dir"
    /\ calls[1].event.kind = "completed"
    /\ calls[1].event.out.file = "results"
    /\ Len(calls[1].event.out.items) = 2
    /\ db.results["dir"].count = 2
    /\ db.results["dir"].directories =
           <<[path |-> "/a", status |-> 403, severity |-> "warning"],
             [path |-> "/b", status |-> 503, severity |-> "error"]>>
    /\ calls[1].event.out.items[1].status = 503
    /\ db.results["dir"].by_status[403] = 1

\* the users the author probes of a call reveal, in the order of the ids
AuthorsRevealed(ev) ==
    LET ids == {id \in AuthorIds : ev.out.probes[id] = "author"}
    IN [k \in 1..Cardinality(ids) |->
           LET id == CHOOSE x \in ids : Cardinality({y \in ids : y < x}) = k - 1
           IN [id |-> id, username |-> "admin"]]

\* C25: when the REST user listing of a WordPress site is unavailable (the
\* request raises or answers with a status other than 200), the users of the
\* result are those of the ids 1..10 whose author probe redirects to
\* /author/NAME; a probe that fails costs only its own id.
C25_UnavailableListingFallsBack ==
    \A k \in 1..Len(calls) :
        (/\ calls[k].module = "wp"
         /\ calls[k].event.kind = "completed"
         /\ "wp" \in DOMAIN ResultsSoFar
         /\ DOMAIN calls[k].event.out # {}
         /\ calls[k].event.out.wordpress
         /\ calls[k].event.out.rest \in {"raises", "refused"}) =>
            /\ ResultsSoFar["wp"].status = "completed"
            /\ ResultsSoFar["wp"].users = AuthorsRevealed(calls[k].event)

\* the tool of a call left with a non-zero exit status, or its output is not
\* what the adapter parses
ToolFailed(c) ==
    /\ c.module \in {"waf", "port", "dir"}
    /\ \/ c.event.kind = "nonzero"
       \/ /\ c.event.kind = "completed"
          /\ DOMAIN c.event.out # {}
          /\ \/ c.module = "waf" /\ c.event.out.verdict = "unrecognised"
             \/ c.module = "dir" /\ c.event.out.file = "malformed"

\* C26: when the tool of a process-wrapping adapter (waf, port, dir) exits
\* with a non-zero status or prints output the adapter cannot parse, the
\* module's result has status error and an error message, never completed.
C26_ToolFailureYieldsError ==
    \A k \in 1..Len(calls) :
        (ToolFailed(calls[k]) /\ calls[k].module \in DOMAIN ResultsSoFar) =>
            /\ ResultsSoFar[calls[k].module].status = "error"
            /\ "error" \in DOMAIN ResultsSoFar[calls[k].module]

\* C27: the technologies list of the tech adapter has no two entries with
\* the same name, every entry is once in the list of its own category, only
\* the fixed categories occur, and count is the length of the list.
C27_TechnologiesDeduplicated ==
    \A k \in 1..Len(calls) :
        (/\ calls[k].module = "tech"
         /\ "tech" \in DOMAIN ResultsSoFar
         /\ ResultsSoFar["tech"].status = "completed") =>
            LET r == ResultsSoFar["tech"]
                t == r.technologies
            IN /\ \A a, b \in 1..Len(t) : t[a].name = t[b].name => a = b
               /\ \A a \in 1..Len(t) :
                      /\ t[a].category \in DOMAIN r.categories
                      /\ Cardinality({j \in 1..Len(r.categories[t[a].category]) :
                                         r.categories[t[a].category][j] = t[a].name}) = 1
               /\ DOMAIN r.categories \subseteq {Categories[j] : j \in 1..Len(Categories)}
               /\ r.count = Len(t)

\* a host of ASCII letters, digits, "." and "-" that begins and ends with a
\* letter or digit and holds no ".."
PlainHost(h) ==
    /\ Len(h) >= 1
    /\ \A k \in 1..Len(h) : h[k] \in Alnum \cup {".", "-"}
    /\ h[1] \in Alnum
    /\ h[Len(h)] \in Alnum
    /\ ~Contains(h, <<".", ".">>)

\* C28: every string validate_target returns is a plain host, so is the host
\* handed to every adapter, and validate_target returns its own output
\* unchanged.
C28_ValidatedHostIsPlain ==
    /\ \A v \in {IF request = NoRequest THEN Ok(ValidHost)
                 ELSE validate_target(request.target)} :
           ~v.ok \/ (PlainHost(v.host) /\ validate_target(v.host) = v)
    /\ \A k \in 1..Len(calls) : PlainHost(calls[k].host)

ExpectedStatus == IF TargetValid THEN "completed" ELSE "failed"

EndsTerminal ==
    (pc = "done" /\ db # NoRow /\ ~PersistenceFailed) => db.status = ExpectedStatus

\* C30 as stated: every scheduled run_scan_task ends; without persistence
\* failure it leaves the scan completed (valid target) or failed (invalid
\* target); no ended run leaves the scan running.
C30_RunEndsNeverRunning ==
    /\ (pc = "scheduled") ~> (pc = "done")
    /\ [](EndsTerminal /\ ~(pc = "done" /\ db # NoRow /\ db.status = "running"))

\* C30: every scheduled run_scan_task ends; without persistence failure it
\* leaves the scan completed (valid target) or failed (invalid target); an
\* ended run leaves the scan running only if it raised, that is when a
\* commit failed and the handler's own commit failed as well.
C30_RunEndsTerminalUnlessRaised ==
    /\ (pc = "scheduled") ~> (pc = "done")
    /\ [](EndsTerminal /\ ((pc = "done" /\ db # NoRow /\ db.status = "running") => raised))

C30_Witness ==
    /\ pc = "done"
    /\ db # NoRow
    /\ db.status = "completed"
    /\ ~raised
    /\ Len(calls) = 2
    /\ calls[1].event.kind = "timeout"
    /\ calls[2].event.kind = "raise"

====
